---------------------------- MODULE Spec2Model ----------------------------
(***************************************************************************)
(* The generic vector of include/libk/vector.h: the value containers       *)
(* (GENERATE_VECTOR: int, char, double) and the pointer container          *)
(* (GENERATE_PTR_VECTOR: char), with the heap they allocate from.          *)
(*                                                                         *)
(* push, pop, delete and the type-specific halves of new are translated    *)
(* from the macros of vector.h.  new_vector, delete_vector and             *)
(* vector_resize are only declared there (vector.h:52-54); their bodies    *)
(* follow the design text (section 4.1: construction, growth policy,       *)
(* delete).  kmalloc/kfree are those of libk/heap.h; the heap is a list of *)
(* blocks whose addresses are never handed out twice.                      *)
(***************************************************************************)
EXTENDS Integers, Naturals, Sequences, FiniteSets, TLC

VARIABLES
  T,        \* element type the container was generated for
  vstate,   \* "none": not constructed, "live", "deleted", "null": new failed
  vect,     \* the struct type##_vector / type##_ptr_vector (NULL when none)
  bufs,     \* the heap blocks handed out by kmalloc for backing buffers
  calls,    \* allocator calls made by the container, in order
  hist,     \* the pushes and pops made by the caller, with what pop returned
  oob,      \* number of writes that landed outside the allocated slots
  nullw     \* fields stored through a NULL container handle

vars == <<T, vstate, vect, bufs, calls, hist, oob, nullw>>

(***************************************************************************)
(* Bounds of the model.                                                    *)
(***************************************************************************)
MaxOps == 5      \* pushes and pops made on one container
MaxElem == 2     \* distinct element values / distinct referents

(***************************************************************************)
(* uint32_t, kept as two 16-bit halves <<hi, lo>> so that the whole range  *)
(* 0 .. 2^32-1 and its wrap-around are represented.                        *)
(***************************************************************************)
HalfWord == 65536

U32(n) == <<n \div HalfWord, n % HalfWord>>

U32Max == <<HalfWord - 1, HalfWord - 1>>

U32Inc(u) ==
  IF u[2] + 1 < HalfWord THEN <<u[1], u[2] + 1>>
  ELSE <<(u[1] + 1) % HalfWord, 0>>

U32Dec(u) ==
  IF u[2] > 0 THEN <<u[1], u[2] - 1>>
  ELSE <<(u[1] + HalfWord - 1) % HalfWord, HalfWord - 1>>

U32Dbl(u) ==
  LET lo == u[2] * 2
      hi == u[1] * 2 + (lo \div HalfWord)
  IN  <<hi % HalfWord, lo % HalfWord>>

U32Lt(a, b) == a[1] < b[1] \/ (a[1] = b[1] /\ a[2] < b[2])

U32Le(a, b) == a = b \/ U32Lt(a, b)

\* The number a small uint32_t stands for (capacities and in-bounds indices).
Val(u) == u[1] * HalfWord + u[2]

(***************************************************************************)
(* Element types and values.                                               *)
(***************************************************************************)
DEFAULT_CAPACITY == 1

ValueTypes == {"int", "char", "double"}

PtrTypes == {"char_ptr"}

Types == ValueTypes \cup PtrTypes

IsPtr(t) == t \in PtrTypes

\* sizeof(type) / sizeof(type*) on the 32-bit target.
SizeOf(t) ==
  CASE t = "int" -> 4
    [] t = "char" -> 1
    [] t = "double" -> 8
    [] t = "char_ptr" -> 4

\* Values a caller pushes.  For the pointer container an element e is the
\* address of referent e, a block the caller allocated before pushing it.
Elems == 1 .. MaxElem

NULL == [null |-> TRUE]

Uninit == 0


(***************************************************************************)
(* The heap.  m = [bufs, calls]: the blocks handed out for backing buffers *)
(* and the allocator calls made so far.  A block keeps its slots after it  *)
(* is freed; its address is never handed out again.                        *)
(***************************************************************************)
kmalloc(m, bytes, nslots) ==
  LET id == Len(m.bufs) + 1
  IN  [id |-> id,
       m |-> [bufs |-> Append(m.bufs,
                              [live |-> TRUE, bytes |-> bytes,
                               slots |-> [i \in 1 .. nslots |-> Uninit]]),
              calls |-> Append(m.calls,
                               [fn |-> "kmalloc", kind |-> "buf",
                                id |-> id, bytes |-> bytes])]]

kfree_buf(m, id) ==
  [bufs |-> [m.bufs EXCEPT ![id].live = FALSE],
   calls |-> Append(m.calls, [fn |-> "kfree", kind |-> "buf",
                              id |-> id, bytes |-> 0])]

kfree_ref(m, p) ==
  [bufs |-> m.bufs,
   calls |-> Append(m.calls, [fn |-> "kfree", kind |-> "ref",
                              id |-> p, bytes |-> 0])]

RECURSIVE kfree_refs(_, _)
kfree_refs(m, ps) ==
  IF ps = <<>> THEN m ELSE kfree_refs(kfree_ref(m, Head(ps)), Tail(ps))

\* Number of kfree calls made on referent p / on buffer b.
RefFrees(p) ==
  Cardinality({i \in DOMAIN calls :
                 calls[i].fn = "kfree" /\ calls[i].kind = "ref" /\ calls[i].id = p})

BufFrees(b) ==
  Cardinality({i \in DOMAIN calls :
                 calls[i].fn = "kfree" /\ calls[i].kind = "buf" /\ calls[i].id = b})

LiveBufs == {b \in DOMAIN bufs : bufs[b].live}

(***************************************************************************)
(* new_vector, delete_vector, vector_resize (declared at vector.h:52-54).  *)
(* ok tells whether the allocator satisfies the request.                   *)
(***************************************************************************)
new_vector(m, data_size, ok) ==
  IF ~ok THEN [vector |-> NULL, m |-> m]
  ELSE LET a == kmalloc(m, DEFAULT_CAPACITY * data_size, DEFAULT_CAPACITY)
       IN  [vector |-> [size |-> U32(0),
                        capacity |-> U32(DEFAULT_CAPACITY),
                        data_size |-> data_size,
                        data |-> a.id],
            m |-> a.m]

delete_vector(m, v) == kfree_buf(m, v.data)

\* Growth that forgets to free the block it replaces.
vector_resize_leak(m, v, ok) ==
  IF ~ok THEN [vector |-> v, m |-> m]
  ELSE LET dbl == U32Dbl(v.capacity)
           newcap == IF U32Lt(dbl, U32(1)) THEN U32(1) ELSE dbl
           a == kmalloc(m, Val(newcap) * v.data_size, Val(newcap))
           old == m.bufs[v.data].slots
           copied == [i \in 1 .. Val(newcap) |->
                        IF i <= Len(old) /\ U32Lt(U32(i - 1), v.size)
                        THEN old[i] ELSE Uninit]
       IN  [vector |-> [v EXCEPT !.capacity = newcap, !.data = a.id],
            m |-> [a.m EXCEPT !.bufs[a.id].slots = copied]]

\* Growth: new capacity max(1, capacity * 2); a fresh block of
\* new_capacity * data_size bytes; the first size slots copied; the old block
\* freed.  A failed growth leaves the container and the heap as they were.
vector_resize(m, v, ok) ==
  IF ~ok THEN [vector |-> v, m |-> m]
  ELSE LET dbl == U32Dbl(v.capacity)
           newcap == IF U32Lt(dbl, U32(1)) THEN U32(1) ELSE dbl
           a == kmalloc(m, Val(newcap) * v.data_size, Val(newcap))
           old == m.bufs[v.data].slots
           copied == [i \in 1 .. Val(newcap) |->
                        IF i <= Len(old) /\ U32Lt(U32(i - 1), v.size)
                        THEN old[i] ELSE Uninit]
           m1 == [a.m EXCEPT !.bufs[a.id].slots = copied]
       IN  [vector |-> [v EXCEPT !.capacity = newcap, !.data = a.id],
            m |-> kfree_buf(m1, v.data)]

(***************************************************************************)
(* GENERATE_VECTOR(type) and GENERATE_PTR_VECTOR(type).                    *)
(***************************************************************************)
\* A function stored in the container's delete/push/pop field.
Fn(name, t) == <<name, t>>

Methods(t) ==
  [delete |-> Fn("delete", t), push |-> Fn("push", t), pop |-> Fn("pop", t)]

\* vect->data[i] is one of the allocated slots of the buffer.
InBounds(v, i) == U32Lt(i, v.capacity)

\* push with the growth test off by one: grows only once size > capacity.
push_vector_late_grow(m, v, value, ok) ==
  LET r == IF U32Lt(v.capacity, v.size)
           THEN vector_resize(m, v, ok)
           ELSE [vector |-> v, m |-> m]
      w == r.vector
      hit == InBounds(w, w.size)
      m2 == IF hit
            THEN [r.m EXCEPT !.bufs[w.data].slots[Val(w.size) + 1] = value]
            ELSE r.m
  IN  [vector |-> [w EXCEPT !.size = U32Inc(w.size)],
       m |-> m2,
       oob |-> IF hit THEN 0 ELSE 1,
       grew |-> w.data # v.data]

\* push that grows on every call (the size == capacity test dropped).
push_vector_always_grow(m, v, value, ok) ==
  LET r == vector_resize(m, v, ok)
      w == r.vector
      hit == InBounds(w, w.size)
      m2 == IF hit
            THEN [r.m EXCEPT !.bufs[w.data].slots[Val(w.size) + 1] = value]
            ELSE r.m
  IN  [vector |-> [w EXCEPT !.size = U32Inc(w.size)],
       m |-> m2,
       oob |-> IF hit THEN 0 ELSE 1,
       grew |-> w.data # v.data]

\* push that increments size before the write (data[++size] = value).
push_vector_incr_first(m, v, value, ok) ==
  LET r == IF v.size = v.capacity
           THEN vector_resize(m, v, ok)
           ELSE [vector |-> v, m |-> m]
      w == [r.vector EXCEPT !.size = U32Inc(r.vector.size)]
      hit == InBounds(w, w.size)
      m2 == IF hit
            THEN [r.m EXCEPT !.bufs[w.data].slots[Val(w.size) + 1] = value]
            ELSE r.m
  IN  [vector |-> w,
       m |-> m2,
       oob |-> IF hit THEN 0 ELSE 1,
       grew |-> w.data # v.data]

\* push that increments data_size instead of size (vect->data_size++).
push_vector_bump_data_size(m, v, value, ok) ==
  LET r == IF v.size = v.capacity
           THEN vector_resize(m, v, ok)
           ELSE [vector |-> v, m |-> m]
      w == r.vector
      hit == InBounds(w, w.size)
      m2 == IF hit
            THEN [r.m EXCEPT !.bufs[w.data].slots[Val(w.size) + 1] = value]
            ELSE r.m
  IN  [vector |-> [w EXCEPT !.data_size = w.data_size + 1],
       m |-> m2,
       oob |-> IF hit THEN 0 ELSE 1,
       grew |-> w.data # v.data]

\* push that writes first and grows afterwards.
push_vector_write_first(m, v, value, ok) ==
  LET hit == InBounds(v, v.size)
      m1 == IF hit
            THEN [m EXCEPT !.bufs[v.data].slots[Val(v.size) + 1] = value]
            ELSE m
      r == IF v.size = v.capacity
           THEN vector_resize(m1, v, ok)
           ELSE [vector |-> v, m |-> m1]
      w == r.vector
  IN  [vector |-> [w EXCEPT !.size = U32Inc(w.size)],
       m |-> r.m,
       oob |-> IF hit THEN 0 ELSE 1,
       grew |-> w.data # v.data]

\* push_##type##_vector and push_##type##_ptr_vector (same body).
push_vector(m, v, value, ok) ==
  LET r == IF v.size = v.capacity
           THEN vector_resize(m, v, ok)
           ELSE [vector |-> v, m |-> m]
      w == r.vector
      hit == InBounds(w, w.size)
      m2 == IF hit
            THEN [r.m EXCEPT !.bufs[w.data].slots[Val(w.size) + 1] = value]
            ELSE r.m
  IN  [vector |-> [w EXCEPT !.size = U32Inc(w.size)],
       m |-> m2,
       oob |-> IF hit THEN 0 ELSE 1,
       grew |-> w.data # v.data]

\* What a read of vect->data[i] can yield: the slot's value, or anything when
\* the slot was never written or lies outside the buffer.
ReadSlot(m, v, i) ==
  IF InBounds(v, i) /\ m.bufs[v.data].slots[Val(i) + 1] # Uninit
  THEN {m.bufs[v.data].slots[Val(i) + 1]}
  ELSE Elems

\* pop that reads before it decrements (return data[size--]).
pop_vector_read_first(m, v) ==
  [vector |-> [v EXCEPT !.size = U32Dec(v.size)],
   m |-> m,
   rets |-> ReadSlot(m, v, v.size)]

\* pop that also shrinks capacity to the new size (at least 1) when the
\* container was not empty.
pop_vector_shrink(m, v) ==
  LET n == U32Dec(v.size)
      w == [v EXCEPT !.size = n,
                     !.capacity = IF v.size = U32(0) THEN v.capacity
                                  ELSE IF n = U32(0) THEN U32(1) ELSE n]
  IN  [vector |-> w, m |-> m, rets |-> ReadSlot(m, v, n)]

\* pop with an emptiness check: an empty container is left as it is.
pop_vector_checked(m, v) ==
  IF v.size = U32(0)
  THEN [vector |-> v, m |-> m, rets |-> Elems]
  ELSE LET w == [v EXCEPT !.size = U32Dec(v.size)]
       IN  [vector |-> w, m |-> m, rets |-> ReadSlot(m, w, w.size)]

\* pop that clears the slot it returns (data[size] = 0 after the read).
pop_vector_clear_slot(m, v) ==
  LET w == [v EXCEPT !.size = U32Dec(v.size)]
  IN  [vector |-> w,
       m |-> IF InBounds(w, w.size)
             THEN [m EXCEPT !.bufs[w.data].slots[Val(w.size) + 1] = Uninit]
             ELSE m,
       rets |-> ReadSlot(m, w, w.size)]

\* pop_##type##_vector and pop_##type##_ptr_vector (same body): only size is
\* written, the heap m is left as it is.
pop_vector(m, v) ==
  LET w == [v EXCEPT !.size = U32Dec(v.size)]
  IN  [vector |-> w, m |-> m, rets |-> ReadSlot(m, w, w.size)]

\* delete_##type##_vector.
delete_value_vector(m, v) == delete_vector(m, v)

\* The slots of the buffer a loop "for (i = 0; i < n; i++) data[i]" reads,
\* in order.
LoopSlots(m, v, n) ==
  LET s == m.bufs[v.data].slots
  IN  SubSeq(s, 1, IF U32Lt(n, v.capacity) THEN Val(n) ELSE Len(s))

\* The slots the loop of delete_##type##_ptr_vector reads: i < vect->size.
HeldSlots(m, v) == LoopSlots(m, v, v.size)

RECURSIVE Written(_)
Written(s) ==
  IF s = <<>> THEN <<>>
  ELSE IF Head(s) = Uninit THEN Written(Tail(s))
       ELSE <<Head(s)>> \o Written(Tail(s))

\* The loop reads outside the written slots when size > capacity or a slot
\* below size was never written.
StrayReads(m, v) ==
  \/ U32Lt(v.capacity, v.size)
  \/ \E i \in 1 .. Len(HeldSlots(m, v)) : HeldSlots(m, v)[i] = Uninit

RECURSIVE SetToSeq(_)
SetToSeq(S) ==
  IF S = {} THEN <<>>
  ELSE LET x == CHOOSE y \in S : \A z \in S : y <= z
       IN  <<x>> \o SetToSeq(S \ {x})

\* delete that never frees the referents (the own_ptrs branch dropped).
delete_ptr_vector_leak(m, v, stray) == delete_vector(m, v)

\* delete that frees the referents whatever own_ptrs says.
delete_ptr_vector_always_free(m, v, stray) ==
  delete_vector(kfree_refs(m, Written(HeldSlots(m, v)) \o SetToSeq(stray)), v)

\* delete whose loop runs to capacity instead of size.
delete_ptr_vector_capacity(m, v, stray) ==
  LET m1 == IF v.own_ptrs
            THEN kfree_refs(m, Written(LoopSlots(m, v, v.capacity))
                               \o SetToSeq(stray))
            ELSE m
  IN  delete_vector(m1, v)

\* delete that releases the buffer first and walks its slots afterwards.
delete_ptr_vector_buffer_first(m, v, stray) ==
  LET m1 == delete_vector(m, v)
  IN  IF v.own_ptrs
      THEN kfree_refs(m1, Written(HeldSlots(m1, v)) \o SetToSeq(stray))
      ELSE m1

\* delete_##type##_ptr_vector; stray is what the stray reads of the loop hit.
delete_ptr_vector(m, v, stray) ==
  LET m1 == IF v.own_ptrs
            THEN kfree_refs(m, Written(HeldSlots(m, v)) \o SetToSeq(stray))
            ELSE m
  IN  delete_vector(m1, v)

\* new that passes sizeof(type*) as the element size.
new_value_vector_ptr_size(m, t, ok) ==
  LET r == new_vector(m, SizeOf("char_ptr"), ok)
  IN  IF r.vector = NULL
      THEN [vector |-> NULL, m |-> r.m, nullw |-> {"delete", "push", "pop"}]
      ELSE [vector |-> r.vector @@ Methods(t), m |-> r.m, nullw |-> {}]

\* new_##type##_vector.
new_value_vector(m, t, ok) ==
  LET r == new_vector(m, SizeOf(t), ok)
  IN  IF r.vector = NULL
      THEN [vector |-> NULL, m |-> r.m, nullw |-> {"delete", "push", "pop"}]
      ELSE [vector |-> r.vector @@ Methods(t), m |-> r.m, nullw |-> {}]

\* new_##type##_ptr_vector.
new_ptr_vector(m, t, own_ptrs, ok) ==
  LET r == new_vector(m, SizeOf(t), ok)
  IN  IF r.vector = NULL
      THEN [vector |-> NULL, m |-> r.m,
            nullw |-> {"own_ptrs", "delete", "push", "pop"}]
      ELSE [vector |-> r.vector @@ [own_ptrs |-> own_ptrs] @@ Methods(t),
            m |-> r.m, nullw |-> {}]

(***************************************************************************)
(* The caller: constructs one container, pushes and pops, deletes it.      *)
(***************************************************************************)
Mem == [bufs |-> bufs, calls |-> calls]

Init ==
  /\ T = "none"
  /\ vstate = "none"
  /\ vect = NULL
  /\ bufs = <<>>
  /\ calls = <<>>
  /\ hist = <<>>
  /\ oob = 0
  /\ nullw = {}

Constructed(t, r) ==
  /\ T' = t
  /\ vect' = r.vector
  /\ vstate' = IF r.vector = NULL THEN "null" ELSE "live"
  /\ bufs' = r.m.bufs
  /\ calls' = r.m.calls
  /\ nullw' = r.nullw
  /\ UNCHANGED <<hist, oob>>

\* vect = new_##type##_vector();
NewValue(t, ok) ==
  /\ vstate = "none"
  /\ Constructed(t, new_value_vector(Mem, t, ok))

\* vect = new_##type##_ptr_vector(own_ptrs);
NewPtr(t, own_ptrs, ok) ==
  /\ vstate = "none"
  /\ Constructed(t, new_ptr_vector(Mem, t, own_ptrs, ok))

\* push(vect, value);  ok matters only when the push has to grow.
Push(value, ok) ==
  /\ vstate = "live"
  /\ Len(hist) < MaxOps
  /\ ok \/ vect.size = vect.capacity
  /\ LET r == push_vector(Mem, vect, value, ok)
     IN  /\ vect' = r.vector
         /\ bufs' = r.m.bufs
         /\ calls' = r.m.calls
         /\ oob' = oob + r.oob
         /\ hist' = Append(hist, [op |-> "push", val |-> value,
                                  pre |-> vect.size, grew |-> r.grew,
                                  ok |-> ok])
  /\ UNCHANGED <<T, vstate, nullw>>

\* ret = pop(vect);
Pop ==
  /\ vstate = "live"
  /\ Len(hist) < MaxOps
  /\ LET r == pop_vector(Mem, vect)
     IN  /\ vect' = r.vector
         /\ bufs' = r.m.bufs
         /\ calls' = r.m.calls
         /\ \E ret \in r.rets :
              hist' = Append(hist, [op |-> "pop", val |-> ret,
                                    pre |-> vect.size, grew |-> FALSE,
                                    ok |-> TRUE])
  /\ UNCHANGED <<T, vstate, oob, nullw>>

\* delete(vect); on a value container.
DeleteValue ==
  /\ vstate = "live"
  /\ ~IsPtr(T)
  /\ LET m == delete_value_vector(Mem, vect)
     IN  bufs' = m.bufs /\ calls' = m.calls
  /\ vstate' = "deleted"
  /\ UNCHANGED <<T, vect, hist, oob, nullw>>

\* delete(vect); on a pointer container.
DeletePtr ==
  /\ vstate = "live"
  /\ IsPtr(T)
  /\ \E stray \in (IF vect.own_ptrs /\ StrayReads(Mem, vect)
                   THEN SUBSET Elems ELSE {{}}) :
       LET m == delete_ptr_vector(Mem, vect, stray)
       IN  bufs' = m.bufs /\ calls' = m.calls
  /\ vstate' = "deleted"
  /\ UNCHANGED <<T, vect, hist, oob, nullw>>

\* The allocator satisfies every request.
Next ==
  \/ \E t \in ValueTypes : NewValue(t, TRUE)
  \/ \E t \in PtrTypes, own_ptrs \in BOOLEAN : NewPtr(t, own_ptrs, TRUE)
  \/ \E value \in Elems : Push(value, TRUE)
  \/ Pop
  \/ DeleteValue
  \/ DeletePtr

Spec == Init /\ [][Next]_vars

\* The allocator may refuse a request (allocate -> buffer | failure).
NextOOM ==
  \/ \E t \in ValueTypes, ok \in BOOLEAN : NewValue(t, ok)
  \/ \E t \in PtrTypes, own_ptrs \in BOOLEAN, ok \in BOOLEAN :
       NewPtr(t, own_ptrs, ok)
  \/ \E value \in Elems, ok \in BOOLEAN : Push(value, ok)
  \/ Pop
  \/ DeleteValue
  \/ DeletePtr

SpecOOM == Init /\ [][NextOOM]_vars

(***************************************************************************)
(* What the caller did, read off hist.                                     *)
(***************************************************************************)
Pushes == SelectSeq(hist, LAMBDA e : e.op = "push")

Pops == SelectSeq(hist, LAMBDA e : e.op = "pop")

\* Some pop was taken on an empty container (size = 0 on entry).
Underflowed == \E i \in DOMAIN hist : hist[i].op = "pop" /\ hist[i].pre = U32(0)

\* The history is k pushes followed by some pops.
PushesThenPops ==
  \A i, j \in DOMAIN hist : (i < j /\ hist[i].op = "pop") => hist[j].op = "pop"

\* The values pushed and not yet popped, in push order.
RECURSIVE Remaining(_)
Remaining(h) ==
  IF h = <<>> THEN <<>>
  ELSE LET r == Remaining(SubSeq(h, 1, Len(h) - 1))
           e == h[Len(h)]
       IN  IF e.op = "push" THEN Append(r, e.val)
           ELSE IF r = <<>> THEN <<>> ELSE SubSeq(r, 1, Len(r) - 1)

\* The smallest power of two >= n (1 for n = 0).
RECURSIVE Pow2From(_, _)
Pow2From(p, n) == IF p >= n THEN p ELSE Pow2From(2 * p, n)

Pow2Ceil(n) == Pow2From(1, n)

Range(s) == {s[i] : i \in DOMAIN s}

\* The referents at indices [0, size) of a pointer container.
Held == Range(Written(HeldSlots(Mem, vect)))

HeldDistinct ==
  LET w == Written(HeldSlots(Mem, vect))
  IN  \A i, j \in DOMAIN w : i # j => w[i] # w[j]

Popped == {Pops[i].val : i \in DOMAIN Pops}

OwningDeleted == vstate = "deleted" /\ IsPtr(T) /\ vect.own_ptrs

(***************************************************************************)
(* C1.  Capacity invariant.                                                *)
(***************************************************************************)
\* C1 as stated: after every push and every pop of any sequence applied to a
\* fresh container, size <= capacity.
C1_CapacityInvariant ==
  vect # NULL => U32Le(vect.size, vect.capacity)

\* C1 amended: as long as every pop was taken with size > 0, size <= capacity
\* holds after every push and every pop.
C1_CapacityInvariantNoUnderflow ==
  (vect # NULL /\ ~Underflowed) => U32Le(vect.size, vect.capacity)

\* A container that grew, was popped from and is full again.
C1_Witness ==
  /\ vstate = "live" /\ ~Underflowed
  /\ Pops # <<>>
  /\ vect.capacity = U32(2) /\ vect.size = vect.capacity

(***************************************************************************)
(* C2.  Stack (LIFO) law.                                                  *)
(***************************************************************************)
\* C2: after pushes v1..vk on a fresh container, the i-th pop returns
\* v(k+1-i), for every i up to k, growth steps included.
C2_Lifo ==
  (PushesThenPops /\ Len(Pops) <= Len(Pushes)) =>
    \A i \in DOMAIN Pops : Pops[i].val = Pushes[Len(Pushes) + 1 - i].val

\* Pushes of two different values across the growth 1 -> 2, then as many
\* pops.
C2_Witness ==
  /\ PushesThenPops /\ Len(Pushes) = 2 /\ Len(Pops) = 2
  /\ Pushes[1].val # Pushes[2].val
  /\ Pushes[2].grew
  /\ vect.capacity = U32(2) /\ vect.size = U32(0)

(***************************************************************************)
(* C3.  Round-trip of contents.                                            *)
(***************************************************************************)
\* C3: after interleaved pushes and pops, each pop taken with size > 0, that
\* leave size = m, slots [0, m) hold the values pushed and not yet popped, in
\* push order.
C3_RoundTrip ==
  (vstate = "live" /\ ~Underflowed) =>
    LET rem == Remaining(hist)
    IN  /\ vect.size = U32(Len(rem))
        /\ \A i \in DOMAIN rem : bufs[vect.data].slots[i] = rem[i]

\* Pushes, a pop, and pushes again across a growth step, three values left.
C3_Witness ==
  /\ vstate = "live" /\ ~Underflowed
  /\ \E i, j \in DOMAIN hist :
       i < j /\ hist[i].op = "pop" /\ hist[j].op = "push" /\ hist[j].grew
  /\ Len(Remaining(hist)) = 3
  /\ Remaining(hist)[1] # Remaining(hist)[3]

(***************************************************************************)
(* C4.  Doubling law.                                                      *)
(***************************************************************************)
\* C4: after n pushes and no pop on a fresh container, capacity is the
\* smallest power of two >= n (1 when n = 0).
C4_Doubling ==
  (vect # NULL /\ Pops = <<>>) => vect.capacity = U32(Pow2Ceil(Len(hist)))

\* Five pushes: capacity 8 by 1 -> 2 -> 4 -> 8.
C4_Witness ==
  vstate = "live" /\ Pops = <<>> /\ Len(hist) = 5 /\ vect.capacity = U32(8)

(***************************************************************************)
(* C5.  Ownership law.                                                     *)
(***************************************************************************)
\* C5 as stated: deleting an owning pointer container frees every referent
\* held at indices [0, size) exactly once, whatever pushes and pops preceded
\* (here already granted that every pop was taken with size > 0).
C5_Ownership ==
  (OwningDeleted /\ ~Underflowed) => \A p \in Held : RefFrees(p) = 1

\* C5 amended: when every pop was taken with size > 0 and no pointer is held
\* in two slots, delete frees every held referent exactly once.
C5_OwnershipDistinct ==
  (OwningDeleted /\ ~Underflowed /\ HeldDistinct) =>
    \A p \in Held : RefFrees(p) = 1

\* An owning container deleted while holding two different referents, after
\* a pop.
C5_Witness ==
  /\ OwningDeleted /\ ~Underflowed /\ HeldDistinct
  /\ Pops # <<>>
  /\ Cardinality(Held) = 2

(***************************************************************************)
(* C6.  Non-ownership law.                                                 *)
(***************************************************************************)
\* C6: deleting a non-owning pointer container frees no referent.
C6_NonOwnership ==
  (vstate = "deleted" /\ IsPtr(T) /\ ~vect.own_ptrs) =>
    \A p \in Elems : RefFrees(p) = 0

\* A non-owning container deleted while holding two referents, after a pop.
C6_Witness ==
  /\ vstate = "deleted" /\ IsPtr(T) /\ ~vect.own_ptrs
  /\ Pops # <<>>
  /\ Cardinality(Held) = 2

(***************************************************************************)
(* C7.  Pop transfers ownership.                                           *)
(***************************************************************************)
\* C7 as stated: a pointer returned by pop of an owning container is not
\* freed by a later delete, possibly after further pushes and pops (here
\* already granted that every pop was taken with size > 0).
C7_PopTransfers ==
  (OwningDeleted /\ ~Underflowed) => \A p \in Popped : RefFrees(p) = 0

\* C7 amended: a pointer returned by a pop taken with size > 0 is not freed
\* by a later delete, unless the container holds that pointer at an index
\* [0, size) when it is deleted.
C7_PopTransfersUnlessHeld ==
  (OwningDeleted /\ ~Underflowed) =>
    \A p \in Popped \ Held : RefFrees(p) = 0

\* An owning container deleted while it holds one referent and another one
\* was popped before.
C7_Witness ==
  /\ OwningDeleted /\ ~Underflowed
  /\ Popped \ Held # {}
  /\ Held # {}
  /\ \E p \in Held : RefFrees(p) = 1

(***************************************************************************)
(* C8.  Failed growth leaves the container intact.                         *)
(***************************************************************************)
\* C8: after a push whose growth request the allocator refused, size is what
\* it was on entry (not incremented) and still within capacity.
C8_FailedGrowthIntact ==
  (vect # NULL /\ hist # <<>> /\ hist[Len(hist)].op = "push"
     /\ ~hist[Len(hist)].ok) =>
    /\ vect.size = hist[Len(hist)].pre
    /\ U32Le(vect.size, vect.capacity)

(***************************************************************************)
(* C9.  Failed construction returns no container.                          *)
(***************************************************************************)
\* C9: when the allocator refuses the request of new, no field is stored
\* through the failed allocation.
C9_FailedNewNoStore ==
  vstate = "null" => nullw = {}

(***************************************************************************)
(* C10.  Initial state.                                                    *)
(***************************************************************************)
\* C10: a container returned by a successful new has size 0, capacity
\* DEFAULT_CAPACITY, the element size of its type, and one live backing
\* buffer of capacity * element size bytes.
C10_InitialState ==
  (vstate = "live" /\ hist = <<>>) =>
    /\ vect.size = U32(0)
    /\ vect.capacity = U32(1)
    /\ vect.data_size = SizeOf(T)
    /\ LiveBufs = {vect.data}
    /\ bufs[vect.data].bytes = Val(vect.capacity) * SizeOf(T)

\* A fresh container of doubles: one live buffer of 8 bytes.
C10_Witness ==
  /\ vstate = "live" /\ hist = <<>> /\ T = "double"
  /\ bufs[vect.data].live /\ bufs[vect.data].bytes = 8

(***************************************************************************)
(* Steps of the caller, as seen between two states.                        *)
(***************************************************************************)
Last(h) == h[Len(h)]

PushStep == Len(hist') = Len(hist) + 1 /\ Last(hist').op = "push"

PopStep == Len(hist') = Len(hist) + 1 /\ Last(hist').op = "pop"

(***************************************************************************)
(* C11.  Pop frame.                                                        *)
(***************************************************************************)
\* C11: a pop taken with size > 0 decreases size by exactly 1, returns the
\* element that was at index size - 1, and leaves capacity, the buffer and
\* every slot as they were (no allocator call); a push that follows it
\* does not grow and writes that same slot.
C11_PopFrame ==
  [][/\ (PopStep /\ vect.size # U32(0)) =>
          /\ vect'.size = U32Dec(vect.size)
          /\ vect'.capacity = vect.capacity
          /\ vect'.data = vect.data
          /\ bufs' = bufs
          /\ calls' = calls
          /\ InBounds(vect, vect'.size) =>
               Last(hist').val = bufs[vect.data].slots[Val(vect.size)]
     /\ (PushStep /\ hist # <<>> /\ Last(hist).op = "pop"
           /\ Last(hist).pre # U32(0)) =>
          /\ vect'.data = vect.data
          /\ vect'.capacity = vect.capacity
          /\ calls' = calls
          /\ Last(hist').pre = U32Dec(Last(hist).pre)
          /\ InBounds(vect, vect.size) =>
               bufs'[vect.data].slots[Val(Last(hist).pre)] = Last(hist').val
    ]_vars

\* A pop from a full two-slot container returned the second value, and the
\* push after it put another value into that same slot of the same buffer.
C11_Witness ==
  /\ vstate = "live" /\ Len(hist) = 4
  /\ hist[3].op = "pop" /\ hist[3].pre = U32(2)
  /\ hist[3].val = hist[2].val
  /\ hist[4].op = "push" /\ ~hist[4].grew
  /\ hist[4].val # hist[3].val
  /\ vect.capacity = U32(2) /\ vect.size = U32(2)
  /\ bufs[vect.data].slots[2] = hist[4].val

(***************************************************************************)
(* C12.  Push grows exactly when full.                                     *)
(***************************************************************************)
\* C12: a push gets a new buffer if and only if size == capacity on entry;
\* otherwise capacity, the buffer and the heap calls are unchanged.  Either
\* way size goes up by exactly 1 (as a uint32_t) and the value is in slot
\* (old) size of the buffer the container has after the push, so the growth
\* came before the write.
C12_PushGrowsWhenFull ==
  [][PushStep =>
       /\ (vect'.data # vect.data) <=> (vect.size = vect.capacity)
       /\ (vect.size # vect.capacity) =>
            /\ vect'.capacity = vect.capacity
            /\ vect'.data = vect.data
            /\ calls' = calls
       /\ (vect.size = vect.capacity) =>
            /\ vect'.capacity # vect.capacity
            /\ bufs'[vect'.data].live /\ ~bufs'[vect.data].live
       /\ vect'.size = U32Inc(vect.size)
       /\ IF InBounds(vect', vect.size)
          THEN /\ bufs'[vect'.data].slots[Val(vect.size) + 1] = Last(hist').val
               /\ oob' = oob
          ELSE oob' = oob + 1
    ]_vars

\* Three pushes: the first did not grow, the next two did; the last push
\* wrote slot 2 of the four-slot buffer it got.
C12_Witness ==
  /\ vstate = "live" /\ Len(hist) = 3
  /\ \A i \in 1 .. 3 : hist[i].op = "push"
  /\ ~hist[1].grew /\ hist[2].grew /\ hist[3].grew
  /\ vect.capacity = U32(4) /\ vect.size = U32(3)
  /\ bufs[vect.data].slots[3] = hist[3].val
  /\ bufs[vect.data].slots[4] = Uninit

(***************************************************************************)
(* C13.  Delete ordering of an owning pointer container.                   *)
(***************************************************************************)
\* The allocator calls that free a referent / that free buffer b.
RefFreeCalls ==
  {i \in DOMAIN calls : calls[i].fn = "kfree" /\ calls[i].kind = "ref"}

BufFreeCalls(b) ==
  {i \in DOMAIN calls :
     calls[i].fn = "kfree" /\ calls[i].kind = "buf" /\ calls[i].id = b}

\* C13: when an owning pointer container has been deleted, its backing
\* buffer was released exactly once, by the last allocator call, and every
\* free of a referent (each made right after the read of its slot) came
\* before that call.
C13_DeleteOrdering ==
  OwningDeleted =>
    /\ Cardinality(BufFreeCalls(vect.data)) = 1
    /\ BufFreeCalls(vect.data) = {Len(calls)}
    /\ \A i \in RefFreeCalls : \A k \in BufFreeCalls(vect.data) : i < k

\* An owning container that grew and was deleted holding two referents: two
\* referent frees, then the buffer's.
C13_Witness ==
  /\ OwningDeleted /\ ~Underflowed
  /\ vect.capacity = U32(2) /\ vect.size = U32(2)
  /\ Cardinality(RefFreeCalls) = 2
  /\ Cardinality(Held) = 2
  /\ calls[Len(calls)] = [fn |-> "kfree", kind |-> "buf",
                          id |-> vect.data, bytes |-> 0]

(***************************************************************************)
(* C14.  Growth buffer lifecycle.                                          *)
(***************************************************************************)
\* The live container owns exactly one allocated buffer, of capacity *
\* data_size bytes, and every other block it ever had was freed exactly once.
OneBuffer ==
  /\ LiveBufs = {vect.data}
  /\ bufs[vect.data].bytes = Val(vect.capacity) * vect.data_size
  /\ Len(bufs[vect.data].slots) = Val(vect.capacity)
  /\ BufFrees(vect.data) = 0
  /\ \A b \in DOMAIN bufs \ {vect.data} : BufFrees(b) = 1

\* C14: every step that leaves a live container leaves it with exactly one
\* allocated buffer and all replaced ones freed once; a push that grows gets
\* a block never handed out before, of new capacity * data_size bytes, whose
\* first size slots are those of the old buffer, and capacity is updated.
C14_GrowthLifecycle ==
  [][/\ vstate' = "live" => OneBuffer'
     /\ (PushStep /\ vect'.data # vect.data) =>
          /\ vect'.data \notin DOMAIN bufs
          /\ vect'.capacity # vect.capacity
          /\ bufs'[vect'.data].bytes = Val(vect'.capacity) * vect.data_size
          /\ \A i \in 1 .. Len(bufs[vect.data].slots) :
               U32Lt(U32(i - 1), vect.size) =>
                 bufs'[vect'.data].slots[i] = bufs[vect.data].slots[i]
    ]_vars

\* A container of doubles after three growths: buffers 1..3 freed once each,
\* buffer 4 live with 64 bytes and five values in it.
C14_Witness ==
  /\ vstate = "live" /\ T = "double"
  /\ vect.data = 4 /\ vect.capacity = U32(8) /\ vect.size = U32(5)
  /\ bufs[4].live /\ bufs[4].bytes = 64
  /\ \A b \in 1 .. 3 : ~bufs[b].live /\ BufFrees(b) = 1

(***************************************************************************)
(* C15.  Construction parameters are immutable.                            *)
(***************************************************************************)
\* C15: no push, pop or growth step on a live container changes data_size
\* or, in a pointer container, own_ptrs; data_size stays the element size
\* the container was constructed with.
C15_ParamsImmutable ==
  [][vstate = "live" =>
       /\ vect'.data_size = vect.data_size
       /\ vect'.data_size = SizeOf(T)
       /\ IsPtr(T) => vect'.own_ptrs = vect.own_ptrs
    ]_vars

\* An owning pointer container after pushes across two growths and a pop.
C15_Witness ==
  /\ vstate = "live" /\ IsPtr(T) /\ vect.own_ptrs
  /\ vect.data_size = 4
  /\ vect.capacity = U32(4)
  /\ Pops # <<>> /\ ~Underflowed
  /\ Len(hist) = 5

(***************************************************************************)
(* C16.  Unchecked underflow.                                              *)
(***************************************************************************)
\* C16: a pop on a container with size = 0 is carried out all the same: it
\* sets size to 2^32 - 1, so that size > capacity, and allocates nothing; a
\* push made while size > capacity does not grow and writes outside the
\* allocated slots (no slot of the buffer changes).
C16_UncheckedUnderflow ==
  [][/\ (PopStep /\ vect.size = U32(0)) =>
          /\ vect'.size = U32Max
          /\ U32Lt(vect'.capacity, vect'.size)
          /\ vect'.capacity = vect.capacity
          /\ calls' = calls
     /\ (PushStep /\ U32Lt(vect.capacity, vect.size)) =>
          /\ vect'.data = vect.data
          /\ vect'.capacity = vect.capacity
          /\ calls' = calls
          /\ bufs' = bufs
          /\ oob' = oob + 1
    ]_vars

\* new, pop, push: the pop left size = 2^32 - 1, the push found it, wrote
\* outside the one-slot buffer (still unwritten) and wrapped size to 0.
C16_Witness ==
  /\ vstate = "live" /\ Len(hist) = 2
  /\ hist[1].op = "pop" /\ hist[1].pre = U32(0)
  /\ hist[2].op = "push" /\ hist[2].pre = U32Max /\ ~hist[2].grew
  /\ oob = 1
  /\ bufs[vect.data].slots = <<Uninit>>
  /\ vect.size = U32(0) /\ vect.capacity = U32(1)

(***************************************************************************)
(* C17.  Capacity tracks the high-water mark.                              *)
(***************************************************************************)
\* The largest size the container has had after the calls of h.
RECURSIVE HighWater(_)
HighWater(h) ==
  IF h = <<>> THEN 0
  ELSE LET rest == HighWater(SubSeq(h, 1, Len(h) - 1))
           e == h[Len(h)]
       IN  IF e.op = "push" /\ Val(e.pre) + 1 > rest
           THEN Val(e.pre) + 1 ELSE rest

\* C17: as long as every pop was taken with size > 0, capacity is the
\* smallest power of two >= the largest size ever reached (1 if none), hence
\* never decreases; and a push grew only when size had come back up to the
\* capacity of that moment.
C17_HighWaterCapacity ==
  (vect # NULL /\ ~Underflowed) =>
    /\ vect.capacity = U32(Pow2Ceil(HighWater(hist)))
    /\ \A i \in DOMAIN hist :
         (hist[i].op = "push" /\ hist[i].grew) =>
           Val(hist[i].pre) = Pow2Ceil(HighWater(SubSeq(hist, 1, i - 1)))

\* Three pushes (capacity 4), a pop, and a push that did not grow: size is
\* back at the high-water mark 3.
C17_Witness ==
  /\ vstate = "live" /\ ~Underflowed /\ Len(hist) = 5
  /\ hist[4].op = "pop" /\ hist[5].op = "push" /\ ~hist[5].grew
  /\ HighWater(hist) = 3
  /\ vect.size = U32(3) /\ vect.capacity = U32(4)

========================================================================
